---------------------------- MODULE Spec2Model ----------------------------
(***************************************************************************)
(* A model of the two resume extractors of the repository:                 *)
(*   src/experience_extractor.py  total years of experience                *)
(*   src/skill_extractor.py       normalized, deduplicated, categorized    *)
(*                                skills                                   *)
(* Python strings are modelled as sequences of one-character strings, so   *)
(* that the regular expressions, the substring replacements and the JSON   *)
(* decoding of the source are computed character by character.  Decimal    *)
(* numbers are exact: a literal is a pair (mantissa, scale), a rounded     *)
(* year count is an integer number of tenths.                              *)
(***************************************************************************)
EXTENDS Integers, Sequences, FiniteSets, TLC

VARIABLES
    pc,          \* position of the running program
    arg,         \* argument of the function under call (function specs)
    ret,         \* values returned so far by the function under call
    schema,      \* "total_years" or "skills": which extractor runs
    text,        \* the resume text, as returned by extract_text
    attempt,     \* loop variable of call_gemini_for_skills
    calls,       \* number of client.models.generate_content invocations
    sleeps,      \* arguments of time.sleep so far, in tenths of a second
    raw,         \* resp.text of the last response
    responded,   \* TRUE once generate_content has returned a response
    decimal,     \* result of ask_gemini_for_years, in tenths of a year
    human,       \* result of convert_decimal_to_human
    skills_raw,  \* first component returned by call_gemini_for_skills
    all_skills,  \* process_resume()["all_skills"]
    categories   \* process_resume()["categories"]

vars == <<pc, arg, ret, schema, text, attempt, calls, sleeps, raw, responded,
          decimal, human, skills_raw, all_skills, categories>>

-----------------------------------------------------------------------------
(* Characters and the str / re primitives the source uses.                 *)

Spaces == {" ", "\t", "\n"}

Digits == {"0", "1", "2", "3", "4", "5", "6", "7", "8", "9"}

DigitSeq == <<"0","1","2","3","4","5","6","7","8","9">>

UpperSeq == <<"A","B","C","D","E","F","G","H","I","J","K","L","M","N","O","P","Q","R","S","T","U","V","W","X","Y","Z">>

LowerSeq == <<"a","b","c","d","e","f","g","h","i","j","k","l","m","n","o","p","q","r","s","t","u","v","w","x","y","z">>

Range(s) == {s[i] : i \in 1..Len(s)}

\* \w of the re module, on the ASCII characters of the model
WordChars == Range(UpperSeq) \cup Range(LowerSeq) \cup Digits \cup {"_"}

Min(S) == CHOOSE x \in S : \A y \in S : x <= y

Max(S) == CHOOSE x \in S : \A y \in S : x >= y

DigitVal(c) == (CHOOSE i \in 1..10 : DigitSeq[i] = c) - 1

LowerChar(c) ==
    IF c \in Range(UpperSeq)
    THEN LowerSeq[CHOOSE i \in 1..26 : UpperSeq[i] = c]
    ELSE c

\* str.lower()
lower(s) == [i \in 1..Len(s) |-> LowerChar(s[i])]

\* str.strip()
strip(s) ==
    LET keep == {i \in 1..Len(s) : s[i] \notin Spaces}
    IN  IF keep = {} THEN <<>> ELSE SubSeq(s, Min(keep), Max(keep))

\* s[i:].startswith(k), i counted from 1
StartsWithAt(s, k, i) ==
    /\ i >= 1
    /\ i + Len(k) - 1 <= Len(s)
    /\ \A j \in 1..Len(k) : s[i + j - 1] = k[j]

\* str.find(k), counted from 1; 0 when k does not occur (Python's -1)
find(s, k) ==
    LET hits == {i \in 1..(Len(s) - Len(k) + 1) : StartsWithAt(s, k, i)}
    IN  IF hits = {} THEN 0 ELSE Min(hits)

\* k in s
contains(s, k) == find(s, k) # 0

\* the first index >= i at which k occurs in s, Len(s)+1 if none
NextOccurrence(s, k, i) ==
    Min({j \in i..(Len(s) - Len(k) + 1) : StartsWithAt(s, k, j)} \cup {Len(s) + 1})

\* s[i-1:] with the leftmost non-overlapping occurrences of k replaced by v
RECURSIVE replaceFrom(_, _, _, _)
replaceFrom(s, k, v, i) ==
    LET j == NextOccurrence(s, k, i)
    IN  IF j > Len(s) THEN SubSeq(s, i, Len(s))
        ELSE SubSeq(s, i, j - 1) \o v \o replaceFrom(s, k, v, j + Len(k))

\* str.replace(k, v) for a non-empty k
replace(s, k, v) == replaceFrom(s, k, v, 1)

\* the end of a scan from i: Len(s)+1, or i itself beyond that
PastEnd(s, i) == IF i > Len(s) THEN i ELSE Len(s) + 1

\* the first index >= i whose character is in cls, PastEnd if none
NextIn(s, cls, i) == Min({j \in i..Len(s) : s[j] \in cls} \cup {PastEnd(s, i)})

\* the first index >= i whose character is outside cls, PastEnd if none
RunEnd(s, cls, i) == Min({j \in i..Len(s) : s[j] \notin cls} \cup {PastEnd(s, i)})

\* s[i-1:] with each run of characters of cls replaced by rep
RECURSIVE SubRunsFrom(_, _, _, _)
SubRunsFrom(s, cls, rep, i) ==
    LET j == NextIn(s, cls, i)
    IN  IF j > Len(s) THEN SubSeq(s, i, Len(s))
        ELSE SubSeq(s, i, j - 1) \o rep \o SubRunsFrom(s, cls, rep, RunEnd(s, cls, j))

\* re.sub(r'[cls]+', rep, s)
SubRuns(s, cls, rep) == SubRunsFrom(s, cls, rep, 1)

\* re.sub(r'\s+', ' ', s)
CollapseSpaces(s) == SubRuns(s, Spaces, <<" ">>)

-----------------------------------------------------------------------------
(* skill_extractor.py: the normalization table and normalize_token.        *)

\* the dict, in insertion order (the order of NORMALIZE_MAP.items())
NORMALIZE_MAP == <<
    <<<<"r","e","a","c","t",".","j","s">>, <<"r","e","a","c","t">>>>,
    <<<<"r","e","a","c","t","j","s">>, <<"r","e","a","c","t">>>>,
    <<<<"n","o","d","e","j","s">>, <<"n","o","d","e",".","j","s">>>>,
    <<<<"n","o","d","e"," ","j","s">>, <<"n","o","d","e",".","j","s">>>>,
    <<<<"p","o","w","e","r","b","i">>, <<"p","o","w","e","r"," ","b","i">>>>,
    <<<<"u"," ","b","o","o","t">>, <<"u","-","b","o","o","t">>>>,
    <<<<"u","_","b","o","o","t">>, <<"u","-","b","o","o","t">>>>,
    <<<<"d","e","v","i","c","e","-","t","r","e","e">>, <<"d","e","v","i","c","e"," ","t","r","e","e">>>>,
    <<<<"e","m","b","e","d","d","e","d"," ","c">>, <<"c">>>>,
    <<<<"c"," ","p","l","u","s"," ","p","l","u","s">>, <<"c","+","+">>>>,
    <<<<"c","p","l","u","s","p","l","u","s">>, <<"c","+","+">>>>,
    <<<<"u","s","b"," ","3"," ","0">>, <<"u","s","b"," ","3",".","0">>>>,
    <<<<"u","s","b","3",".","0">>, <<"u","s","b"," ","3",".","0">>>>,
    <<<<"w","i"," ","f","i">>, <<"w","i","-","f","i">>>>,
    <<<<"w","i","-","f","i">>, <<"w","i","-","f","i">>>>,
    <<<<"i"," ","2"," ","c">>, <<"i","2","c">>>>,
    <<<<"i"," ","2"," ","s">>, <<"i","2","s">>>>,
    <<<<"s","p","i"," ">>, <<"s","p","i">>>>,
    <<<<"g","p","i","o"," ">>, <<"g","p","i","o">>>>,
    <<<<"y","o","c","t","o"," ","p","r","o","j","e","c","t">>, <<"y","o","c","t","o">>>>,
    <<<<"p","e","t","a","l","i","n","u","x"," ","s","d","k">>, <<"p","e","t","a","l","i","n","u","x">>>>,
    <<<<"s","y","s","t","e","m"," ","v","e","r","i","l","o","g">>, <<"s","y","s","t","e","m","v","e","r","i","l","o","g">>>>,
    <<<<"q","e","m","u">>, <<"q","e","m","u">>>>,
    <<<<"d","e","v","o","p","s">>, <<"d","e","v","o","p","s">>>>,
    <<<<"m","i","c","r","o","c","o","n","t","r","o","l","l","e","r","s">>, <<"m","i","c","r","o","c","o","n","t","r","o","l","l","e","r">>>>,
    <<<<"m","s","p","4","3","0","w","a","r","e">>, <<"m","s","p","4","3","0">>>> >>

\* for k, v in NORMALIZE_MAP.items(): if s == k or k in s: s = s.replace(k, v)
\* from entry i of the table on: the entries whose key does not occur leave
\* s as it is, the next one whose key occurs is applied
RECURSIVE ApplyMapFrom(_, _)
ApplyMapFrom(s, i) ==
    LET hits == {j \in i..Len(NORMALIZE_MAP) :
                   s = NORMALIZE_MAP[j][1] \/ contains(s, NORMALIZE_MAP[j][1])}
    IN  IF hits = {} THEN s
        ELSE ApplyMapFrom(replace(s, NORMALIZE_MAP[Min(hits)][1],
                                  NORMALIZE_MAP[Min(hits)][2]),
                          Min(hits) + 1)

ApplyMap(s) == ApplyMapFrom(s, 1)

\* re.sub(r'\s*[\/\\]+\s*', ' / ', s)
Slashes == {"/", "\\"}

\* a match starts at the whitespace run that ends at a slash
SlashMatchAt(s, i) ==
    LET a == RunEnd(s, Spaces, i)
    IN  a <= Len(s) /\ s[a] \in Slashes

RECURSIVE SubSlashesFrom(_, _)
SubSlashesFrom(s, i) ==
    LET j == Min({x \in i..Len(s) : SlashMatchAt(s, x)} \cup {Len(s) + 1})
    IN  IF j > Len(s) THEN SubSeq(s, i, Len(s))
        ELSE SubSeq(s, i, j - 1) \o <<" ","/"," ">>
             \o SubSlashesFrom(s, RunEnd(s, Spaces,
                                         RunEnd(s, Slashes, RunEnd(s, Spaces, j))))

SubSlashes(s) == SubSlashesFrom(s, 1)

\* re.sub(r'(?<!\d)\.(?!\d)', ' ', s)
SubStrayPeriods(s) ==
    [i \in 1..Len(s) |->
        IF /\ s[i] = "."
           /\ ~(i > 1 /\ s[i - 1] \in Digits)
           /\ ~(i < Len(s) /\ s[i + 1] \in Digits)
        THEN " " ELSE s[i]]

\* a match of r'\busb\s+3\s+0\b' starting at i: the index after it, else 0
UsbMatchEnd(s, i) ==
    LET a == i + 3
        b == RunEnd(s, Spaces, a)
        c == b + 1
        d == RunEnd(s, Spaces, c)
        e == d + 1
    IN  IF /\ (i = 1 \/ s[i - 1] \notin WordChars)
           /\ StartsWithAt(s, <<"u","s","b">>, i)
           /\ b > a /\ b <= Len(s) /\ s[b] = "3"
           /\ d > c /\ d <= Len(s) /\ s[d] = "0"
           /\ (e > Len(s) \/ s[e] \notin WordChars)
        THEN e ELSE 0

RECURSIVE SubUsbFrom(_, _)
SubUsbFrom(s, i) ==
    LET j == Min({x \in i..Len(s) : UsbMatchEnd(s, x) # 0} \cup {Len(s) + 1})
    IN  IF j > Len(s) THEN SubSeq(s, i, Len(s))
        ELSE SubSeq(s, i, j - 1) \o <<"u","s","b"," ","3",".","0">> \o SubUsbFrom(s, UsbMatchEnd(s, j))

\* re.sub(r'\busb\s+3\s+0\b', 'usb 3.0', s)
SubUsb(s) == SubUsbFrom(s, 1)

\* the final canonical tweaks
FinalTweaks(s) ==
    IF s = <<"n","o","d","e">> THEN <<"n","o","d","e",".","j","s">>
    ELSE IF s = <<"r","e","a","c","t","j","s">> THEN <<"r","e","a","c","t">>
    ELSE s

normalize_token(tok) ==
    IF tok = <<>> THEN tok
    ELSE LET s1 == lower(strip(tok))
             s2 == SubRuns(s1, {"_", "\t"}, <<" ">>)
             s3 == SubSlashes(s2)
             s4 == replace(s3, <<",">>, <<" ">>)
             s5 == CollapseSpaces(s4)
             s6 == ApplyMap(s5)
             s7 == strip(SubStrayPeriods(s6))
             s8 == SubUsb(s7)
             s9 == CollapseSpaces(s8)
         IN  FinalTweaks(s9)
-----------------------------------------------------------------------------
(* skill_extractor.py: dedupe_preserve_order and categorize_skill.         *)

LANGUAGES == {<<"c">>, <<"c","+","+">>, <<"c","#">>, <<"p","y","t","h","o","n">>, <<"j","a","v","a">>, <<"j","a","v","a","s","c","r","i","p","t">>, <<"t","y","p","e","s","c","r","i","p","t">>,
              <<"g","o">>, <<"r","u","s","t">>, <<"r","u","b","y">>, <<"p","h","p">>, <<"s","c","a","l","a">>, <<"k","o","t","l","i","n">>, <<"s","w","i","f","t">>, <<"r">>}

TOOLS == {<<"g","i","t">>, <<"g","d","b">>, <<"c","m","a","k","e">>, <<"m","a","k","e">>, <<"g","c","c">>, <<"c","l","a","n","g">>, <<"v","i","v","a","d","o">>, <<"q","u","a","r","t","u","s">>,
          <<"j","t","a","g">>, <<"d","o","c","k","e","r">>, <<"h","e","l","m">>, <<"a","n","s","i","b","l","e">>}

PROTOCOLS == {<<"i","2","c">>, <<"s","p","i">>, <<"u","a","r","t">>, <<"g","p","i","o">>, <<"p","c","i","e">>, <<"u","s","b">>, <<"e","t","h","e","r","n","e","t">>, <<"c","a","n">>,
              <<"i","2","s">>, <<"w","i","-","f","i">>, <<"w","i","f","i">>, <<"l","t","e">>, <<"b","l","u","e","t","o","o","t","h">>}

PLATFORMS == {<<"e","m","b","e","d","d","e","d"," ","l","i","n","u","x">>, <<"y","o","c","t","o">>, <<"p","e","t","a","l","i","n","u","x">>, <<"u","-","b","o","o","t">>, <<"r","a","s","p","b","e","r","r","y"," ","p","i">>,
              <<"s","t","m","3","2">>, <<"a","r","m">>, <<"n","x","p">>, <<"i","m","x">>, <<"x","i","l","i","n","x"," ","z","y","n","q">>, <<"x","i","l","i","n","x"," ","r","f","s","o","c">>,
              <<"x","i","l","i","n","x"," ","m","p","s","o","c">>}

DRIVERS == {<<"k","e","r","n","e","l"," ","d","r","i","v","e","r","s">>, <<"d","e","v","i","c","e"," ","d","r","i","v","e","r","s">>, <<"d","r","i","v","e","r"," ","d","e","v","e","l","o","p","m","e","n","t">>,
            <<"b","o","o","t","l","o","a","d","e","r">>, <<"b","o","a","r","d"," ","b","r","i","n","g","-","u","p">>, <<"b","s","p">>, <<"f","i","r","m","w","a","r","e">>, <<"k","e","r","n","e","l">>,
            <<"l","i","n","u","x"," ","k","e","r","n","e","l">>}

OTHER_HINTS == {<<"l","i","n","u","x">>, <<"b","a","s","h">>, <<"s","h","e","l","l">>, <<"s","y","s","t","e","m","d">>, <<"s","y","s","v","i","n","i","t">>, <<"e","x","c","e","l">>,
                <<"t","a","b","l","e","a","u">>, <<"p","o","w","e","r"," ","b","i">>, <<"e","t","l">>, <<"s","p","a","r","k">>, <<"h","a","d","o","o","p">>}

\* the tuples of the "contains keywords" heuristics
DriverHints == {<<"d","r","i","v","e","r">>, <<"k","e","r","n","e","l">>, <<"b","o","o","t","l","o","a","d","e","r">>, <<"b","s","p">>, <<"b","o","a","r","d"," ","b","r","i","n","g","-","u","p">>, <<"f","i","r","m","w","a","r","e">>}

PlatformHints == {<<"l","i","n","u","x">>, <<"e","m","b","e","d","d","e","d">>, <<"y","o","c","t","o">>, <<"p","e","t","a","l","i","n","u","x">>, <<"u","-","b","o","o","t">>}

ToolHints == {<<"a","w","s">>, <<"a","z","u","r","e">>, <<"g","c","p">>, <<"d","o","c","k","e","r">>, <<"k","u","b","e","r","n","e","t","e","s">>, <<"t","e","r","r","a","f","o","r","m">>, <<"a","n","s","i","b","l","e">>}

ProtocolHints == {<<"i","2","c">>, <<"s","p","i">>, <<"u","a","r","t">>, <<"g","p","i","o">>, <<"u","s","b">>, <<"e","t","h","e","r","n","e","t">>, <<"c","a","n">>, <<"i","2","s">>,
                  <<"b","l","u","e","t","o","o","t","h">>, <<"w","i","-","f","i">>}

LanguageHints == {<<"p","y","t","h","o","n">>, <<"j","a","v","a">>, <<"c","+","+">>, <<"c","#">>, <<"j","a","v","a","s","c","r","i","p","t">>, <<"t","y","p","e","s","c","r","i","p","t">>, <<"g","o">>,
                  <<"r","u","s","t">>}

\* any(k in low for k in hints)
AnyIn(hints, low) == \E k \in hints : contains(low, k)

\* the heuristics tried in another order: platforms before drivers
categorize_skill_platforms_first(skill) ==
    LET low == lower(skill)
    IN  IF low \in LANGUAGES THEN "languages"
        ELSE IF low \in TOOLS THEN "tools"
        ELSE IF low \in PROTOCOLS THEN "protocols"
        ELSE IF low \in PLATFORMS THEN "platforms"
        ELSE IF low \in DRIVERS THEN "drivers"
        ELSE IF low \in OTHER_HINTS THEN "other"
        ELSE IF AnyIn(PlatformHints, low) THEN "platforms"
        ELSE IF AnyIn(DriverHints, low) THEN "drivers"
        ELSE IF AnyIn(ToolHints, low) THEN "tools"
        ELSE IF AnyIn(ProtocolHints, low) THEN "protocols"
        ELSE IF AnyIn(LanguageHints, low) THEN "languages"
        ELSE "other"

categorize_skill(skill) ==
    LET low == lower(skill)
    IN  IF low \in LANGUAGES THEN "languages"
        ELSE IF low \in TOOLS THEN "tools"
        ELSE IF low \in PROTOCOLS THEN "protocols"
        ELSE IF low \in PLATFORMS THEN "platforms"
        ELSE IF low \in DRIVERS THEN "drivers"
        ELSE IF low \in OTHER_HINTS THEN "other"
        ELSE IF AnyIn(DriverHints, low) THEN "drivers"
        ELSE IF AnyIn(PlatformHints, low) THEN "platforms"
        ELSE IF AnyIn(ToolHints, low) THEN "tools"
        ELSE IF AnyIn(ProtocolHints, low) THEN "protocols"
        ELSE IF AnyIn(LanguageHints, low) THEN "languages"
        ELSE "other"

\* the loop of dedupe_preserve_order from item i on, <<"o","u","t">> being the list so
\* far (seen is the set of the items of out)
RECURSIVE DedupeFrom(_, _, _)
DedupeFrom(items, out, i) ==
    IF i > Len(items) THEN out
    ELSE DedupeFrom(items,
                    IF items[i] \notin Range(out) THEN Append(out, items[i]) ELSE out,
                    i + 1)

dedupe_preserve_order(items) == DedupeFrom(items, <<>>, 1)

-----------------------------------------------------------------------------
(* Decimal numbers.  A number read from text is [m |-> mantissa,           *)
(* k |-> digits after the point], the value m / 10^k: float() of the       *)
(* literals of the model, none of which has more than two digits after     *)
(* the point, and none of which lies halfway between two tenths.           *)

RECURSIVE Pow10(_)
Pow10(k) == IF k = 0 THEN 1 ELSE 10 * Pow10(k - 1)

Dec(m, k) == [m |-> m, k |-> k]

\* a <= b on decimals
DecLeq(a, b) == a.m * Pow10(b.k) <= b.m * Pow10(a.k)

\* max(vals) of a non-empty list of decimals
RECURSIVE DecMax(_)
DecMax(vals) ==
    IF Len(vals) = 1 THEN vals[1]
    ELSE LET rest == DecMax(Tail(vals))
         IN  IF DecLeq(rest, vals[1]) THEN vals[1] ELSE rest

\* the integer nearest to a / b (b > 0), halves to the even neighbour: round()
RoundDiv(a, b) ==
    LET q == a \div b
        r == a % b
    IN  IF 2 * r < b THEN q
        ELSE IF 2 * r > b THEN q + 1
        ELSE IF q % 2 = 0 THEN q ELSE q + 1

\* int(a / b) (b > 0): truncation toward zero
TruncDiv(a, b) == IF a >= 0 THEN a \div b ELSE -((-a) \div b)

\* round(x, 1), in tenths
Round1(x) ==
    IF x.k = 0 THEN 10 * x.m
    ELSE RoundDiv(x.m, Pow10(x.k - 1))

\* int(digits): the value of the digit run s[i..j-1]
RECURSIVE DigitsValue(_, _, _)
DigitsValue(s, i, j) ==
    IF j <= i THEN 0
    ELSE 10 * DigitsValue(s, i, j - 1) + DigitVal(s[j - 1])

\* the greedy match of r'\d+(?:\.\d+)?' at a digit s[i]:
\* [v |-> float(match), e |-> index after the match]
ScanNumber(s, i) ==
    LET a == RunEnd(s, Digits, i)
        hasFrac == a + 1 <= Len(s) /\ s[a] = "." /\ s[a + 1] \in Digits
        b == IF hasFrac THEN RunEnd(s, Digits, a + 1) ELSE a
    IN  IF hasFrac
        THEN [v |-> Dec(DigitsValue(s, i, a) * Pow10(b - a - 1)
                          + DigitsValue(s, a + 1, b), b - a - 1),
              e |-> b]
        ELSE [v |-> Dec(DigitsValue(s, i, a), 0), e |-> a]

\* str(n) of an integer
RECURSIVE IntToStr(_)
IntToStr(n) ==
    IF n < 0 THEN <<"-">> \o IntToStr(-n)
    ELSE IF n < 10 THEN <<DigitSeq[n + 1]>>
    ELSE IntToStr(n \div 10) \o <<DigitSeq[(n % 10) + 1]>>

-----------------------------------------------------------------------------
(* experience_extractor.py: fallback_years.                                *)

\* a match of r'\s*(?:\+)?\s*(?:years?|yrs?)' at p: the index after it, else 0
UnitEnd(s, p) ==
    IF StartsWithAt(s, <<"y","e","a","r">>, p)
    THEN (IF StartsWithAt(s, <<"s">>, p + 4) THEN p + 5 ELSE p + 4)
    ELSE IF StartsWithAt(s, <<"y","r">>, p)
    THEN (IF StartsWithAt(s, <<"s">>, p + 2) THEN p + 3 ELSE p + 2)
    ELSE 0

YearsTailEnd(s, p) ==
    LET a == RunEnd(s, Spaces, p)
    IN  IF a <= Len(s) /\ s[a] = "+"
        THEN UnitEnd(s, RunEnd(s, Spaces, a + 1))
        ELSE UnitEnd(s, a)

\* [float(m.group(1)) for m in re.finditer(
\*      r'(\d+(?:\.\d+)?)\s*(?:\+)?\s*(?:years?|yrs?)', s)], scanning from i
\* a match starts at a digit whose number is followed by the unit
YearMatchAt(s, i) ==
    s[i] \in Digits /\ YearsTailEnd(s, ScanNumber(s, i).e) # 0

RECURSIVE YearMentionsFrom(_, _)
YearMentionsFrom(s, i) ==
    LET j == Min({x \in i..Len(s) : YearMatchAt(s, x)} \cup {Len(s) + 1})
    IN  IF j > Len(s) THEN <<>>
        ELSE <<ScanNumber(s, j).v>>
             \o YearMentionsFrom(s, YearsTailEnd(s, ScanNumber(s, j).e))

\* in tenths of a year
fallback_years(txt) ==
    IF txt = <<>> THEN 0
    ELSE LET vals == YearMentionsFrom(lower(txt), 1)
         IN  IF vals # <<>> THEN Round1(DecMax(vals)) ELSE 0

-----------------------------------------------------------------------------
(* json.loads, on the JSON the responses of the model hold: objects,       *)
(* arrays, strings without escapes, numbers without exponent, and the      *)
(* literals true, false and null.  A decoded value is a record             *)
(*   t: "obj" | "arr" | "str" | "num" | "bool" | "null"                    *)
(*   n: the number (a bool: 1 or 0)   s: the characters of a string        *)
(*   a: the items of an array, or the values of an object                  *)
(*   keys: the keys of an object, keys[i] holding a[i]                     *)

JVal(t, n, s, a, keys) == [t |-> t, n |-> n, s |-> s, a |-> a, keys |-> keys]

JNull == JVal("null", Dec(0, 0), <<>>, <<>>, <<>>)

JNum(n) == JVal("num", n, <<>>, <<>>, <<>>)

JStr(s) == JVal("str", Dec(0, 0), s, <<>>, <<>>)

JBool(b) == JVal("bool", Dec(IF b THEN 1 ELSE 0, 0), <<>>, <<>>, <<>>)

JArr(a) == JVal("arr", Dec(0, 0), <<>>, a, <<>>)

JObj(keys, a) == JVal("obj", Dec(0, 0), <<>>, a, keys)

\* a decoding step: ok, the value, and the index after it
JFail == [ok |-> FALSE, v |-> JNull, i |-> 0]

JOk(v, i) == [ok |-> TRUE, v |-> v, i |-> i]

\* py_scanstring at the opening quote s[i]
ParseString(s, i) ==
    LET ends == {j \in (i + 1)..Len(s) : s[j] = "\""}
    IN  IF ends = {} THEN JFail
        ELSE LET j == Min(ends)
                 body == SubSeq(s, i + 1, j - 1)
             IN  IF Range(body) \cap {"\\", "\t", "\n"} # {}
                 THEN JFail
                 ELSE JOk(JStr(body), j + 1)

\* NUMBER_RE = (-?(?:0|[1-9]\d*))(\.\d+)? at s[i]
ParseNumber(s, i) ==
    LET neg == s[i] = "-"
        a == IF neg THEN i + 1 ELSE i
    IN  IF a > Len(s) \/ s[a] \notin Digits THEN JFail
        ELSE LET b == IF s[a] = "0" THEN a + 1 ELSE RunEnd(s, Digits, a)
                 hasFrac == b + 1 <= Len(s) /\ s[b] = "." /\ s[b + 1] \in Digits
                 c == IF hasFrac THEN RunEnd(s, Digits, b + 1) ELSE b
                 k == IF hasFrac THEN c - b - 1 ELSE 0
                 mant == DigitsValue(s, a, b) * Pow10(k)
                         + (IF hasFrac THEN DigitsValue(s, b + 1, c) ELSE 0)
             IN  JOk(JNum(Dec(IF neg THEN -mant ELSE mant, k)), c)

RECURSIVE ParseValue(_, _)
RECURSIVE ParseItems(_, _, _)
RECURSIVE ParseMembers(_, _, _, _)

\* JSONArray after a first item: items is the list so far, i the index of
\* the next item
ParseItems(s, i, items) ==
    LET item == ParseValue(s, i)
    IN  IF ~item.ok THEN JFail
        ELSE LET j == RunEnd(s, Spaces, item.i)
                 more == Append(items, item.v)
             IN  IF j > Len(s) THEN JFail
                 ELSE IF s[j] = "]" THEN JOk(JArr(more), j + 1)
                 ELSE IF s[j] = "," THEN ParseItems(s, RunEnd(s, Spaces, j + 1), more)
                 ELSE JFail

\* JSONObject: i is the index of the opening quote of the next key
ParseMembers(s, i, keys, vals) ==
    IF i > Len(s) \/ s[i] # "\"" THEN JFail
    ELSE LET key == ParseString(s, i)
         IN  IF ~key.ok THEN JFail
             ELSE LET c == RunEnd(s, Spaces, key.i)
                  IN  IF c > Len(s) \/ s[c] # ":" THEN JFail
                      ELSE LET val == ParseValue(s, RunEnd(s, Spaces, c + 1))
                           IN  IF ~val.ok THEN JFail
                               ELSE LET j == RunEnd(s, Spaces, val.i)
                                        ks == Append(keys, key.v.s)
                                        vs == Append(vals, val.v)
                                    IN  IF j > Len(s) THEN JFail
                                        ELSE IF s[j] = "}" THEN JOk(JObj(ks, vs), j + 1)
                                        ELSE IF s[j] = ","
                                        THEN ParseMembers(s, RunEnd(s, Spaces, j + 1), ks, vs)
                                        ELSE JFail

\* scan_once at s[i]
ParseValue(s, i) ==
    IF i > Len(s) THEN JFail
    ELSE IF s[i] = "\"" THEN ParseString(s, i)
    ELSE IF s[i] = "{"
    THEN LET j == RunEnd(s, Spaces, i + 1)
         IN  IF j <= Len(s) /\ s[j] = "}" THEN JOk(JObj(<<>>, <<>>), j + 1)
             ELSE ParseMembers(s, j, <<>>, <<>>)
    ELSE IF s[i] = "["
    THEN LET j == RunEnd(s, Spaces, i + 1)
         IN  IF j <= Len(s) /\ s[j] = "]" THEN JOk(JArr(<<>>), j + 1)
             ELSE ParseItems(s, j, <<>>)
    ELSE IF s[i] \in Digits \cup {"-"} THEN ParseNumber(s, i)
    ELSE IF StartsWithAt(s, <<"n","u","l","l">>, i) THEN JOk(JNull, i + 4)
    ELSE IF StartsWithAt(s, <<"t","r","u","e">>, i) THEN JOk(JBool(TRUE), i + 4)
    ELSE IF StartsWithAt(s, <<"f","a","l","s","e">>, i) THEN JOk(JBool(FALSE), i + 5)
    ELSE JFail

\* json.loads(s): the value when s is one JSON document, else a failure
\* (the JSONDecodeError)
json_loads(s) ==
    LET r == ParseValue(s, RunEnd(s, Spaces, 1))
    IN  IF r.ok /\ RunEnd(s, Spaces, r.i) > Len(s) THEN r ELSE JFail

\* obj.get(key, default): the value of the last member named key
dict_get(obj, key, default) ==
    LET hits == {i \in 1..Len(obj.keys) : obj.keys[i] = key}
    IN  IF hits = {} THEN default ELSE obj.a[Max(hits)]

\* m = re.search(r'\{.*\}', raw, flags=re.DOTALL); m.group(0), <<>> when
\* there is no match: from the first "{" to the last "}"
GreedyObject(s) ==
    LET opens == {i \in 1..Len(s) : s[i] = "{"}
        closes == {j \in 1..Len(s) : s[j] = "}"}
    IN  IF opens = {} \/ closes = {} \/ Max(closes) < Min(opens) THEN <<>>
        ELSE SubSeq(s, Min(opens), Max(closes))

-----------------------------------------------------------------------------
(* experience_extractor.py: ask_gemini_for_years and                       *)
(* convert_decimal_to_human.                                               *)

\* a conversion: ok, and the decimal
NoFloat == [ok |-> FALSE, v |-> Dec(0, 0)]

\* float(s) of a str: a signed decimal numeral between whitespace, else the
\* ValueError
FloatOfString(s) ==
    LET t == strip(s)
        signed == t # <<>> /\ t[1] \in {"+", "-"}
        a == IF signed THEN 2 ELSE 1
    IN  IF a > Len(t) \/ t[a] \notin Digits THEN NoFloat
        ELSE LET num == ScanNumber(t, a)
             IN  IF num.e <= Len(t) THEN NoFloat
                 ELSE [ok |-> TRUE,
                       v |-> IF signed /\ t[1] = "-"
                             THEN Dec(-num.v.m, num.v.k) ELSE num.v]

\* float(v) of a decoded value: the TypeError for None, a list or a dict
FloatOf(v) ==
    IF v.t \in {"num", "bool"} THEN [ok |-> TRUE, v |-> v.n]
    ELSE IF v.t = "str" THEN FloatOfString(v.s)
    ELSE NoFloat

MAX_CHARS_YEARS == 12000

\* text[:max_chars]
Truncate(txt, max_chars) ==
    IF Len(txt) > max_chars THEN SubSeq(txt, 1, max_chars) ELSE txt

\* the inner try: float(json.loads(m.group(0)).get("total_years", 0.0))
YearsFromObject(rawText) ==
    LET m == GreedyObject(rawText)
        obj == json_loads(m)
    IN  IF m = <<>> \/ ~obj.ok THEN NoFloat
        ELSE FloatOf(dict_get(obj.v, <<"t","o","t","a","l","_","y","e","a","r","s">>, JNum(Dec(0, 0))))

\* m2 = re.search(r'(\d+(?:\.\d+)?)', raw): the index of its first digit, or 0
FirstDigit(rawText) ==
    LET ds == {i \in 1..Len(rawText) : rawText[i] \in Digits}
    IN  IF ds = {} THEN 0 ELSE Min(ds)

\* the body of the try once generate_content has returned rawText
YearsFromResponse(rawText, txt) ==
    LET val == YearsFromObject(rawText)
        d == FirstDigit(rawText)
    IN  IF val.ok THEN Round1(val.v)
        ELSE IF d # 0 THEN Round1(ScanNumber(rawText, d).v)
        ELSE fallback_years(Truncate(txt, MAX_CHARS_YEARS))

\* the except branch
YearsOnError(txt) == fallback_years(Truncate(txt, MAX_CHARS_YEARS))

\* the carry dropped: months are never folded into the years
convert_decimal_to_human_no_carry(h, method) ==
    LET years == TruncDiv(h, 100)
        frac == h - 100 * years
        months == IF method = "floor" THEN TruncDiv(12 * frac, 100)
                  ELSE RoundDiv(12 * frac, 100)
    IN  IF years = 0 /\ months = 0 THEN <<"0"," ","y","e","a","r","s">>
        ELSE IF months = 0 THEN IntToStr(years) \o <<" ","y","e","a","r","s">>
        ELSE IF years = 0 THEN IntToStr(months) \o <<" ","m","o","n","t","h","s">>
        ELSE IntToStr(years) \o <<" ","y","e","a","r","s"," ">> \o IntToStr(months) \o <<" ","m","o","n","t","h","s">>

\* decimal_years is h / 100
convert_decimal_to_human(h, method) ==
    LET years0 == TruncDiv(h, 100)
        frac == h - 100 * years0
        months0 == IF method = "floor" THEN TruncDiv(12 * frac, 100)
                   ELSE RoundDiv(12 * frac, 100)
        years == IF months0 >= 12 THEN years0 + 1 ELSE years0
        months == IF months0 >= 12 THEN months0 - 12 ELSE months0
    IN  IF years = 0 /\ months = 0 THEN <<"0"," ","y","e","a","r","s">>
        ELSE IF months = 0 THEN IntToStr(years) \o <<" ","y","e","a","r","s">>
        ELSE IF years = 0 THEN IntToStr(months) \o <<" ","m","o","n","t","h","s">>
        ELSE IntToStr(years) \o <<" ","y","e","a","r","s"," ">> \o IntToStr(months) \o <<" ","m","o","n","t","h","s">>

-----------------------------------------------------------------------------
(* skill_extractor.py: call_gemini_for_skills and process_resume.          *)

BASE_KEYWORDS == <<
    <<"c">>, <<"c","+","+">>, <<"c","#">>, <<"p","y","t","h","o","n">>, <<"j","a","v","a">>, <<"j","a","v","a","s","c","r","i","p","t">>, <<"t","y","p","e","s","c","r","i","p","t">>, <<"g","o">>,
    <<"r","u","s","t">>, <<"r","u","b","y">>, <<"p","h","p">>, <<"s","c","a","l","a">>, <<"k","o","t","l","i","n">>, <<"s","w","i","f","t">>, <<"r">>, <<"r","e","a","c","t">>,
    <<"a","n","g","u","l","a","r">>, <<"v","u","e">>, <<"n","e","x","t",".","j","s">>, <<"s","v","e","l","t","e">>, <<"h","t","m","l">>, <<"c","s","s">>, <<"s","a","s","s">>,
    <<"t","a","i","l","w","i","n","d">>, <<"n","o","d","e",".","j","s">>, <<"e","x","p","r","e","s","s">>, <<"d","j","a","n","g","o">>, <<"f","l","a","s","k">>, <<"s","p","r","i","n","g"," ","b","o","o","t">>,
    <<"s","p","r","i","n","g">>, <<"l","a","r","a","v","e","l">>, <<"a","s","p",".","n","e","t">>, <<"s","q","l">>, <<"p","o","s","t","g","r","e","s","q","l">>, <<"m","y","s","q","l">>, <<"m","o","n","g","o","d","b">>,
    <<"r","e","d","i","s">>, <<"o","r","a","c","l","e">>, <<"m","s","s","q","l">>, <<"c","a","s","s","a","n","d","r","a">>, <<"a","w","s">>, <<"a","z","u","r","e">>, <<"g","c","p">>,
    <<"d","o","c","k","e","r">>, <<"k","u","b","e","r","n","e","t","e","s">>, <<"t","e","r","r","a","f","o","r","m">>, <<"a","n","s","i","b","l","e">>, <<"h","e","l","m">>, <<"j","e","n","k","i","n","s">>,
    <<"g","i","t","h","u","b"," ","a","c","t","i","o","n","s">>, <<"g","i","t","l","a","b","-","c","i">>, <<"c","i","r","c","l","e","c","i">>, <<"p","a","n","d","a","s">>, <<"n","u","m","p","y">>,
    <<"s","c","i","k","i","t","-","l","e","a","r","n">>, <<"t","e","n","s","o","r","f","l","o","w">>, <<"p","y","t","o","r","c","h">>, <<"x","g","b","o","o","s","t">>, <<"l","i","g","h","t","g","b","m">>, <<"n","l","p">>,
    <<"o","p","e","n","c","v">>, <<"s","p","a","c","y">>, <<"s","p","a","r","k">>, <<"h","a","d","o","o","p">>, <<"e","t","l">>, <<"a","i","r","f","l","o","w">>,
    <<"e","m","b","e","d","d","e","d"," ","l","i","n","u","x">>, <<"y","o","c","t","o">>, <<"p","e","t","a","l","i","n","u","x">>, <<"u","-","b","o","o","t">>, <<"d","e","v","i","c","e"," ","t","r","e","e">>,
    <<"k","e","r","n","e","l">>, <<"l","i","n","u","x"," ","k","e","r","n","e","l">>, <<"b","s","p">>, <<"a","r","m">>, <<"r","a","s","p","b","e","r","r","y"," ","p","i">>, <<"s","t","m","3","2">>, <<"n","x","p">>,
    <<"i","m","x">>, <<"q","u","a","l","c","o","m","m">>, <<"i","2","c">>, <<"s","p","i">>, <<"u","a","r","t">>, <<"g","p","i","o">>, <<"p","c","i","e">>, <<"u","s","b">>,
    <<"e","t","h","e","r","n","e","t">>, <<"c","a","n">>, <<"i","2","s">>, <<"b","o","a","r","d"," ","b","r","i","n","g","-","u","p">>, <<"f","i","r","m","w","a","r","e">>, <<"b","o","o","t","l","o","a","d","e","r">>,
    <<"d","r","i","v","e","r"," ","d","e","v","e","l","o","p","m","e","n","t">>, <<"k","e","r","n","e","l"," ","d","r","i","v","e","r","s">>, <<"d","e","v","i","c","e"," ","d","r","i","v","e","r","s">>, <<"g","i","t">>, <<"g","d","b">>,
    <<"c","m","a","k","e">>, <<"m","a","k","e">>, <<"g","c","c">>, <<"c","l","a","n","g">>, <<"v","i","v","a","d","o">>, <<"q","u","a","r","t","u","s">>, <<"j","t","a","g">>, <<"l","i","n","u","x">>,
    <<"b","a","s","h">>, <<"s","h","e","l","l">>, <<"s","y","s","t","e","m","d">>, <<"s","y","s","v","i","n","i","t">>, <<"e","x","c","e","l">>, <<"t","a","b","l","e","a","u">>, <<"p","o","w","e","r"," ","b","i">>,
    <<"d","o","c","k","e","r","-","c","o","m","p","o","s","e">> >>

MAX_RETRIES == 2

\* the first component call_gemini_for_skills returns: None, or a list
NoneSkills == [none |-> TRUE, items |-> <<>>]

SomeSkills(items) == [none |-> FALSE, items |-> items]

\* arr_match = re.search(r'\[\s*([^\]]+?)\s*\]', raw, flags=re.DOTALL);
\* arr_match.group(0), <<>> when there is no match: the leftmost "[" whose
\* next "]" is at least one character away
ArrayMatch(s) ==
    LET closeOf(i) == Min({j \in (i + 1)..Len(s) : s[j] = "]"} \cup {Len(s) + 1})
        starts == {i \in 1..Len(s) :
                     s[i] = "[" /\ closeOf(i) <= Len(s) /\ closeOf(i) >= i + 2}
    IN  IF starts = {} THEN <<>>
        ELSE SubSeq(s, Min(starts), closeOf(Min(starts)))

Quotes == {"\"", "'"}

\* re.findall(r'["\']([^"\']+)["\']', s), scanning from i
\* a match starts at a quote followed by one or more other characters
\* and a quote
QuotedMatchAt(s, i) ==
    LET j == NextIn(s, Quotes, i + 1)
    IN  s[i] \in Quotes /\ j <= Len(s) /\ j > i + 1

RECURSIVE QuotedItemsFrom(_, _)
QuotedItemsFrom(s, i) ==
    LET a == Min({x \in i..Len(s) : QuotedMatchAt(s, x)} \cup {Len(s) + 1})
        j == NextIn(s, Quotes, a + 1)
    IN  IF a > Len(s) THEN <<>>
        ELSE <<SubSeq(s, a + 1, j - 1)>> \o QuotedItemsFrom(s, j + 1)

\* [JStr(x) for x in strs]: a list of str as a list of decoded values
AsStrings(strs) == [i \in 1..Len(strs) |-> JStr(strs[i])]

\* the body of the try once generate_content has returned rawText
SkillsFromResponse(rawText) ==
    LET m == GreedyObject(rawText)
        obj == json_loads(m)
        skills == IF m # <<>> /\ obj.ok
                  THEN dict_get(obj.v, <<"s","k","i","l","l","s">>, JArr(<<>>)) ELSE JNull
        items == QuotedItemsFrom(ArrayMatch(rawText), 1)
    IN  IF skills.t = "arr" THEN SomeSkills(skills.a)
        ELSE IF items # <<>> THEN SomeSkills(AsStrings(items))
        ELSE NoneSkills

\* a \b of the re module between s[p-1] and s[p]
IsWordAt(s, p) == p >= 1 /\ p <= Len(s) /\ s[p] \in WordChars

Boundary(s, p) == IsWordAt(s, p - 1) # IsWordAt(s, p)

\* re.search(r'\b' + re.escape(kw) + r'\b', text_low)
KeywordFound(kw, text_low) ==
    \E i \in 1..Len(text_low) :
        /\ StartsWithAt(text_low, kw, i)
        /\ Boundary(text_low, i)
        /\ Boundary(text_low, i + Len(kw))

\* the local keyword scanner: [kw for kw in BASE_KEYWORDS if re.search(...)]
Found(text_low) ==
    SelectSeq(BASE_KEYWORDS, LAMBDA kw : KeywordFound(kw, text_low))

FallbackSkills(txt) == AsStrings(Found(lower(txt)))

\* the "normalize tokens" loop: non-strings and empty tokens are skipped
RECURSIVE NormalizeAll(_)
NormalizeAll(items) ==
    IF items = <<>> THEN <<>>
    ELSE LET tok == normalize_token(items[1].s)
         IN  (IF items[1].t = "str" /\ tok # <<>> THEN <<tok>> ELSE <<>>)
             \o NormalizeAll(Tail(items))

\* the body of the "final canonical fixes" loop
FinalFix(s) == strip(CollapseSpaces(ApplyMap(strip(s))))

Categories == {"languages", "tools", "protocols", "platforms", "drivers", "other"}

RECURSIVE InCategory(_, _)
InCategory(final, cat) ==
    IF final = <<>> THEN <<>>
    ELSE (IF categorize_skill(final[1]) = cat THEN <<final[1]>> ELSE <<>>)
         \o InCategory(Tail(final), cat)

\* process_resume from the return of call_gemini_for_skills to the second
\* dedupe: the list "final"
FinalSkills(skills, txt) ==
    LET found == IF skills.none THEN FallbackSkills(txt) ELSE skills.items
        normalized == dedupe_preserve_order(NormalizeAll(found))
    IN  dedupe_preserve_order([i \in 1..Len(normalized) |->
                                  FinalFix(normalized[i])])

\* the "categorize" loop of process_resume
Categorized(final) == [cat \in Categories |-> InCategory(final, cat)]

-----------------------------------------------------------------------------
(* Inputs of the model.                                                    *)

\* all the concatenations of at most n of the parts
RECURSIVE Concats(_, _)
Concats(parts, n) ==
    IF n = 0 THEN {<<>>}
    ELSE LET shorter == Concats(parts, n - 1)
         IN  shorter \cup {p \o t : p \in parts, t \in shorter}

MaxTextParts == 1

TextParts == {<<"P","y","t","h","o","n",","," ","D","o","c","k","e","r",","," ","I","2","C">>, <<" ","C","+","+"," ","a","n","d"," ","n","e","x","t",".","j","s">>,
              <<" ","5"," ","y","e","a","r","s"," ","a","n","d"," ","3"," ","y","r","s"," ","o","f"," ","w","o","r","k">>, <<" ","1","2",".","3","4"," ","Y","e","a","r","s">>, <<" ","n","o","d","e",".","j","s">>}

\* the resume texts extract_text returns:
\* re.sub(r'\s+', ' ', raw).strip() of what the document holds
Texts == {strip(CollapseSpaces(t)) : t \in Concats(TextParts, MaxTextParts)}

MaxTailParts == 1

\* what a response may hold after its first part
TailParts == {<<" ","o","k">>, <<" ","}">>, <<" ","7">>}

Tails == Concats(TailParts, MaxTailParts)

YearHeads == {<<"{","\"","t","o","t","a","l","_","y","e","a","r","s","\"",":"," ","3",".","5","}">>, <<"{","\"","t","o","t","a","l","_","y","e","a","r","s","\"",":"," ","-","2","}">>,
              <<"{","\"","v","2","\"",":"," ","1",","," ","\"","t","o","t","a","l","_","y","e","a","r","s","\"",":"," ","1","2",".","3","4","}">>, <<"{","}">>, <<"{","\"","t","o","t","a","l","_","y","e","a","r","s","\"",":"," ","\"","n","/","a","\"","}">>,
              <<"{","\"","t","o","t","a","l","_","y","e","a","r","s","\"",":"," ","3",".","5">>, <<"a","b","o","u","t"," ","7"," ","y","e","a","r","s">>, <<"u","n","k","n","o","w","n">>}

SkillHeads == {<<"{","\"","s","k","i","l","l","s","\"",":"," ","[","\"","p","y","t","h","o","n","\"",","," ","\"","D","o","c","k","e","r","\"","]","}">>, <<"{","\"","s","k","i","l","l","s","\"",":"," ","[","]","}">>,
               <<"{","\"","s","k","i","l","l","s","\"",":"," ","[","\"","r","e","a","c","t","\"",","," ","\"","r","e","a","c","t","j","s","j","s","j","s","\"","]","}">>,
               <<"{","\"","s","k","i","l","l","s","\"",":"," ","[","\"","a","\"",","," ","\"","b","\"",","," ","\"","a","\"",","," ","\"","c","\"",","," ","\"","b","\"","]","}">>,
               <<"{","\"","s","k","i","l","l","s","\"",":"," ","[","3",","," ","\"","N","o","d","e","\"",","," ","\"","n","o","d","e",".","j","s","\"","]","}">>, <<"{","\"","s","k","i","l","l","s","\"",":"," ","\"","g","i","t","\"","}">>,
               <<"[","\"","u","_","b","o","o","t","\"",","," ","'","w","i"," ","f","i","'","]">>, <<"n","o","n","e"," ","f","o","u","n","d">>}

\* resp.text, for each of the two prompts
YearResponses == {h \o t : h \in YearHeads, t \in Tails}

SkillResponses == {h \o t : h \in SkillHeads, t \in Tails}

-----------------------------------------------------------------------------
(* The two programs: main() of experience_extractor.py (schema             *)
(* "total_years") and of skill_extractor.py (schema "skills"), from the    *)
(* text extract_text returned to the values they print.                    *)

NoResult ==
    /\ decimal = 0 /\ human = <<>> /\ skills_raw = NoneSkills
    /\ all_skills = <<>>
    /\ categories = [cat \in Categories |-> <<>>]

Init ==
    /\ schema \in {"total_years", "skills"}
    /\ text \in Texts
    /\ pc = "call"
    /\ attempt = 0 /\ calls = 0 /\ sleeps = <<>>
    /\ raw = <<>> /\ responded = FALSE
    /\ arg = <<>> /\ ret = <<>>
    /\ NoResult

\* ask_gemini_for_years: client.models.generate_content(...) returns a
\* response or raises
AskGemini ==
    /\ schema = "total_years" /\ pc = "call"
    /\ calls' = calls + 1
    /\ \/ \E r \in YearResponses :
            raw' = r /\ responded' = TRUE /\ pc' = "parse"
       \/ pc' = "except" /\ UNCHANGED <<raw, responded>>
    /\ UNCHANGED <<arg, ret, schema, text, attempt, sleeps, decimal, human,
                   skills_raw, all_skills, categories>>

\* ask_gemini_for_years: the rest of the try
AskGeminiParse ==
    /\ schema = "total_years" /\ pc = "parse"
    /\ decimal' = YearsFromResponse(raw, text)
    /\ pc' = "convert"
    /\ UNCHANGED <<arg, ret, schema, text, attempt, calls, sleeps, raw,
                   responded, human, skills_raw, all_skills, categories>>

\* ask_gemini_for_years: except Exception
AskGeminiExcept ==
    /\ schema = "total_years" /\ pc = "except"
    /\ decimal' = YearsOnError(text)
    /\ pc' = "convert"
    /\ UNCHANGED <<arg, ret, schema, text, attempt, calls, sleeps, raw,
                   responded, human, skills_raw, all_skills, categories>>

\* main: human = convert_decimal_to_human(decimal, method="round")
ConvertToHuman ==
    /\ schema = "total_years" /\ pc = "convert"
    /\ human' = convert_decimal_to_human(10 * decimal, "round")
    /\ pc' = "done"
    /\ UNCHANGED <<arg, ret, schema, text, attempt, calls, sleeps, raw,
                   responded, decimal, skills_raw, all_skills, categories>>

\* call_gemini_for_skills: generate_content, in the loop over attempt
CallGemini ==
    /\ schema = "skills" /\ pc = "call"
    /\ attempt <= MAX_RETRIES
    /\ calls' = calls + 1
    /\ \/ \E r \in SkillResponses :
            raw' = r /\ responded' = TRUE /\ pc' = "parse"
       \/ pc' = "except" /\ UNCHANGED <<raw, responded>>
    /\ UNCHANGED <<arg, ret, schema, text, attempt, sleeps, decimal, human,
                   skills_raw, all_skills, categories>>

\* call_gemini_for_skills, had it gone round the loop again on a response
\* it could not parse while attempts are left
CallGeminiParse_retry_unparsed ==
    /\ schema = "skills" /\ pc = "parse"
    /\ skills_raw' = SkillsFromResponse(raw)
    /\ IF SkillsFromResponse(raw).none /\ attempt < MAX_RETRIES
       THEN pc' = "call" /\ attempt' = attempt + 1
       ELSE pc' = "process" /\ attempt' = attempt
    /\ UNCHANGED <<arg, ret, schema, text, calls, sleeps, raw, responded,
                   decimal, human, all_skills, categories>>

\* call_gemini_for_skills: the rest of the try
CallGeminiParse ==
    /\ schema = "skills" /\ pc = "parse"
    /\ skills_raw' = SkillsFromResponse(raw)
    /\ pc' = "process"
    /\ UNCHANGED <<arg, ret, schema, text, attempt, calls, sleeps, raw,
                   responded, decimal, human, all_skills, categories>>

\* call_gemini_for_skills: except Exception, attempts left
CallGeminiRetry ==
    /\ schema = "skills" /\ pc = "except"
    /\ attempt < MAX_RETRIES
    /\ sleeps' = Append(sleeps, 6 * (attempt + 1))
    /\ attempt' = attempt + 1
    /\ pc' = "call"
    /\ UNCHANGED <<arg, ret, schema, text, calls, raw, responded, decimal,
                   human, skills_raw, all_skills, categories>>

\* call_gemini_for_skills: except Exception, no attempt left
CallGeminiGiveUp ==
    /\ schema = "skills" /\ pc = "except"
    /\ ~(attempt < MAX_RETRIES)
    /\ skills_raw' = NoneSkills
    /\ raw' = <<"<","e","r","r","o","r",">">>
    /\ pc' = "process"
    /\ UNCHANGED <<arg, ret, schema, text, attempt, calls, sleeps, responded,
                   decimal, human, all_skills, categories>>

\* process_resume, from the return of call_gemini_for_skills
ProcessResume ==
    /\ schema = "skills" /\ pc = "process"
    /\ all_skills' = FinalSkills(skills_raw, text)
    /\ categories' = Categorized(all_skills')
    /\ pc' = "done"
    /\ UNCHANGED <<arg, ret, schema, text, attempt, calls, sleeps, raw,
                   responded, decimal, human, skills_raw>>

Next ==
    \/ AskGemini
    \/ AskGeminiParse
    \/ AskGeminiExcept
    \/ ConvertToHuman
    \/ CallGemini
    \/ CallGeminiParse
    \/ CallGeminiRetry
    \/ CallGeminiGiveUp
    \/ ProcessResume

Spec == Init /\ [][Next]_vars

-----------------------------------------------------------------------------
(* The pure functions, each called on the arguments of a bounded set.      *)

mainVars == <<schema, text, attempt, calls, sleeps, raw, responded, decimal,
              human, skills_raw, all_skills, categories>>

\* no program runs
Idle ==
    /\ schema = "none" /\ text = <<>>
    /\ attempt = 0 /\ calls = 0 /\ sleeps = <<>>
    /\ raw = <<>> /\ responded = FALSE
    /\ NoResult

MaxTokenParts == 3

TokenParts == {<<"n","o","d","e">>, <<"j","s">>, <<".">>, <<" ">>, <<"r","e","a","c","t">>, <<"w","i">>, <<"f","i">>, <<"u","s","b">>, <<"3">>, <<"0">>,
               <<"_">>, <<"/">>, <<"N">>}

InitNormalize ==
    /\ pc = "call"
    /\ arg \in Concats(TokenParts, MaxTokenParts)
    /\ ret = <<>>
    /\ Idle

\* once = normalize_token(tok)
NormalizeOnce ==
    /\ pc = "call"
    /\ ret' = <<normalize_token(arg)>>
    /\ pc' = "again"
    /\ UNCHANGED <<arg, mainVars>>

\* twice = normalize_token(once)
NormalizeTwice ==
    /\ pc = "again"
    /\ ret' = Append(ret, normalize_token(ret[1]))
    /\ pc' = "return"
    /\ UNCHANGED <<arg, mainVars>>

NextNormalize == NormalizeOnce \/ NormalizeTwice

SpecNormalize == InitNormalize /\ [][NextNormalize]_vars

MaxSkillParts == 2

SkillParts == {<<"l","i","n","u","x">>, <<"d","r","i","v","e","r">>, <<" ">>, <<"p","y","t","h","o","n">>, <<"i","2","c">>, <<"m","a","d","e","-","u","p","-","w","i","d","g","e","t">>,
               <<"k","e","r","n","e","l">>, <<"d","o","c","k","e","r">>, <<"g","o">>, <<"e","m","b","e","d","d","e","d">>, <<"S","p","a","r","k">>, <<"c">>, <<"s">>}

InitCategorize ==
    /\ pc = "call"
    /\ arg \in Concats(SkillParts, MaxSkillParts)
    /\ ret = ""
    /\ Idle

Categorize ==
    /\ pc = "call"
    /\ ret' = categorize_skill(arg)
    /\ pc' = "return"
    /\ UNCHANGED <<arg, mainVars>>

NextCategorize == Categorize

SpecCategorize == InitCategorize /\ [][NextCategorize]_vars

\* the largest decimal_years of the calls, in hundredths of a year
MaxHundredths == 310

InitHuman ==
    /\ pc = "call"
    /\ arg \in [h : 0..MaxHundredths, method : {"round", "floor"}]
    /\ ret = <<>>
    /\ Idle

Convert ==
    /\ pc = "call"
    /\ ret' = convert_decimal_to_human(arg.h, arg.method)
    /\ pc' = "return"
    /\ UNCHANGED <<arg, mainVars>>

NextHuman == Convert

SpecHuman == InitHuman /\ [][NextHuman]_vars

-----------------------------------------------------------------------------
(* The properties.                                                         *)

\* C1: normalize_token is idempotent: normalizing a normalized token gives
\* the same token, for every token.
C1_NormalizeIdempotent ==
    pc = "return" => ret[2] = ret[1]

\* the raw response starts with one valid JSON object ending at p
JsonObjectPrefix(rawText, p) ==
    LET obj == json_loads(SubSeq(rawText, 1, p))
    IN  obj.ok /\ obj.v.t = "obj"

\* C2: when the response is a valid JSON object followed by trailing text,
\* the parsed result is the one of that object alone, whatever the trailing
\* text holds, for the total_years request and for the skills request.
C2_TrailingTextIgnored ==
    (pc = "done" /\ responded) =>
        \A p \in 1..Len(raw) :
            JsonObjectPrefix(raw, p) =>
                /\ schema = "total_years" =>
                       decimal = YearsFromResponse(SubSeq(raw, 1, p), text)
                /\ schema = "skills" =>
                       skills_raw = SkillsFromResponse(SubSeq(raw, 1, p))

\* the response holds a JSON object with a total_years member that float()
\* converts
UsableYears(rawText) ==
    LET obj == json_loads(GreedyObject(rawText))
    IN  /\ GreedyObject(rawText) # <<>> /\ obj.ok
        /\ \E i \in 1..Len(obj.v.keys) : obj.v.keys[i] = <<"t","o","t","a","l","_","y","e","a","r","s">>
        /\ FloatOf(dict_get(obj.v, <<"t","o","t","a","l","_","y","e","a","r","s">>, JNull)).ok

\* C3: whenever the oracle call fails, or its response carries no usable
\* total_years in a JSON object, ask_gemini_for_years returns
\* fallback_years(text): no value of a malformed response is returned.
C3_UnusableResponseFallsBack ==
    (schema = "total_years" /\ pc \in {"convert", "done"}
        /\ (~responded \/ ~UsableYears(raw)))
    => decimal = fallback_years(text)

\* C4: the decimal year count of the experience path is never negative,
\* whatever the oracle answered.
C4_YearsNonNegative ==
    schema = "total_years" => decimal >= 0

\* C5: once the oracle has returned a response, it is never invoked again
\* for that request: the number of invocations no longer changes, also when
\* the response cannot be parsed.
C5_NoCallAfterResponse ==
    [][responded => calls' = calls]_vars

\* C5 happens: a skills request whose first call failed, whose second call
\* returned a response that could not be parsed, and which ended on the
\* local fallback after those two calls
C5_UnparsedResponseNoRetry ==
    /\ schema = "skills" /\ pc = "done" /\ responded
    /\ skills_raw.none /\ calls = 2

\* the waits between attempts grow strictly
StrictlyIncreasing(seq) == \A i \in 1..(Len(seq) - 1) : seq[i] < seq[i + 1]

\* C6: for either schema a transient error is retried, at most MAX_RETRIES
\* times: at most MAX_RETRIES + 1 invocations, each wait longer than the one
\* before, and a request whose every attempt failed ends on the fallback,
\* having retried.
C6_TransientErrorRetried ==
    /\ calls <= MAX_RETRIES + 1
    /\ StrictlyIncreasing(sleeps)
    /\ (pc = "done" /\ ~responded) =>
           /\ calls > 1
           /\ schema = "total_years" => decimal = fallback_years(text)
           /\ schema = "skills" => skills_raw.none

\* the twelve rules of the categorizer, in order
RuleCategory == <<"languages", "tools", "protocols", "platforms", "drivers",
                  "other", "drivers", "platforms", "tools", "protocols",
                  "languages", "other">>

RuleMatches(r, low) ==
    CASE r = 1 -> low \in LANGUAGES
      [] r = 2 -> low \in TOOLS
      [] r = 3 -> low \in PROTOCOLS
      [] r = 4 -> low \in PLATFORMS
      [] r = 5 -> low \in DRIVERS
      [] r = 6 -> low \in OTHER_HINTS
      [] r = 7 -> AnyIn(DriverHints, low)
      [] r = 8 -> AnyIn(PlatformHints, low)
      [] r = 9 -> AnyIn(ToolHints, low)
      [] r = 10 -> AnyIn(ProtocolHints, low)
      [] r = 11 -> AnyIn(LanguageHints, low)
      [] OTHER -> TRUE

FirstRule(low) == Min({r \in 1..Len(RuleCategory) : RuleMatches(r, low)})

\* C7: categorize_skill returns the category of the first matching rule of
\* the fixed order; a token holding both "linux" and "driver" is in drivers;
\* "python" is in languages, "i2c" in protocols, "made-up-widget" in other.
C7_FirstMatchingRule ==
    pc = "return" =>
        /\ ret = RuleCategory[FirstRule(lower(arg))]
        /\ (contains(lower(arg), <<"l","i","n","u","x">>) /\ contains(lower(arg), <<"d","r","i","v","e","r">>))
               => ret = "drivers"
        /\ arg = <<"p","y","t","h","o","n">> => ret = "languages"
        /\ arg = <<"i","2","c">> => ret = "protocols"
        /\ arg = <<"m","a","d","e","-","u","p","-","w","i","d","g","e","t">> => ret = "other"

\* C7 happens: a token holding "linux" and "driver" was categorized
C7_LinuxDriverCategorized ==
    /\ pc = "return" /\ ret = "drivers"
    /\ contains(lower(arg), <<"l","i","n","u","x">>) /\ contains(lower(arg), <<"d","r","i","v","e","r">>)

\* the index of the first item of the token list whose canonical form is
\* tok, Len + 1 if none; the canonical form of a token the program keeps is
\* the one process_resume computes
CanonicalForm(tok) == FinalFix(normalize_token(tok))

TokenList == IF skills_raw.none THEN FallbackSkills(text) ELSE skills_raw.items

FirstOccurrence(tok) ==
    Min({i \in 1..Len(TokenList) :
           TokenList[i].t = "str" /\ CanonicalForm(TokenList[i].s) = tok}
        \cup {Len(TokenList) + 1})

\* C8: all_skills never holds two tokens of the same canonical form, its
\* tokens are in the order of their first occurrence in the token list, and
\* dedupe_preserve_order([a, b, a, c, b]) is [a, b, c].
C8_UniqueInFirstOccurrenceOrder ==
    /\ dedupe_preserve_order(<<<<"a">>, <<"b">>, <<"a">>, <<"c">>, <<"b">>>>) = <<<<"a">>, <<"b">>, <<"c">>>>
    /\ (schema = "skills" /\ pc = "done") =>
           \A i, j \in 1..Len(all_skills) :
               i < j =>
                   /\ normalize_token(all_skills[i]) # normalize_token(all_skills[j])
                   /\ FirstOccurrence(all_skills[i]) < FirstOccurrence(all_skills[j])
                   /\ FirstOccurrence(all_skills[j]) <= Len(TokenList)

\* kw occurs in text_low between characters that are not word characters
OccursAsWord(kw, text_low) ==
    \E i \in 1..Len(text_low) :
        /\ StartsWithAt(text_low, kw, i)
        /\ ~IsWordAt(text_low, i - 1)
        /\ ~IsWordAt(text_low, i + Len(kw))

\* C9: with the oracle failing on every attempt, process_resume returns
\* exactly the dictionary keywords that occur as whole words in the
\* lowercased text, in dictionary order, each in its category; the text
\* "Python, Docker, I2C" gives python, docker and i2c in languages, tools
\* and protocols.
C9_FallbackReturnsDictionaryWords ==
    (schema = "skills" /\ pc = "done" /\ ~responded) =>
        /\ all_skills = SelectSeq(BASE_KEYWORDS,
                                  LAMBDA kw : OccursAsWord(kw, lower(text)))
        /\ \A cat \in Categories :
               categories[cat] = SelectSeq(all_skills,
                                           LAMBDA s : categorize_skill(s) = cat)
        /\ text = <<"P","y","t","h","o","n",","," ","D","o","c","k","e","r",","," ","I","2","C">> =>
               /\ categories["languages"] = <<<<"p","y","t","h","o","n">>>>
               /\ categories["tools"] = <<<<"d","o","c","k","e","r">>>>
               /\ categories["protocols"] = <<<<"i","2","c">>>>
               /\ \A cat \in {"platforms", "drivers", "other"} :
                      categories[cat] = <<>>

\* the months the fraction of h/100 years makes: rounded down, or to the
\* nearest month
MonthsOf(h, method) ==
    IF method = "floor" THEN (12 * (h % 100)) \div 100
    ELSE (12 * (h % 100) + 50) \div 100

HumanString(years, months) ==
    IF years = 0 /\ months = 0 THEN <<"0"," ","y","e","a","r","s">>
    ELSE IF months = 0 THEN IntToStr(years) \o <<" ","y","e","a","r","s">>
    ELSE IF years = 0 THEN IntToStr(months) \o <<" ","m","o","n","t","h","s">>
    ELSE IntToStr(years) \o <<" ","y","e","a","r","s"," ">> \o IntToStr(months) \o <<" ","m","o","n","t","h","s">>

\* C10: convert_decimal_to_human takes the whole years and the months of the
\* fraction, carries twelve months into one more year, so that the months
\* shown are in 0..11, and renders them by the four format rules; 0.0 is
\* "0 years", 2.0 "2 years", 2.5 "2 years 6 months", 1.99 rounds to "2 years".
C10_HumanDuration ==
    pc = "return" =>
        LET y == arg.h \div 100
            m == MonthsOf(arg.h, arg.method)
        IN  /\ m = 12 => ret = HumanString(y + 1, 0)
            /\ m # 12 => m \in 0..11 /\ ret = HumanString(y, m)
            /\ arg.h = 0 => ret = <<"0"," ","y","e","a","r","s">>
            /\ arg.h = 200 => ret = <<"2"," ","y","e","a","r","s">>
            /\ arg.h = 250 => ret = <<"2"," ","y","e","a","r","s"," ","6"," ","m","o","n","t","h","s">>
            /\ (arg.h = 199 /\ arg.method = "round") => ret = <<"2"," ","y","e","a","r","s">>

\* C10 happens: 1.99 years was converted with rounding, the twelve months
\* carried into the second year
C10_CarriedIntoYear ==
    /\ pc = "return" /\ arg.h = 199 /\ arg.method = "round"
    /\ ret = <<"2"," ","y","e","a","r","s">>

=============================================================================
